---- MODULE Spec2Model ----
(***************************************************************************)
(* Task lifecycle of the advertisement-compliance backend.                 *)
(*                                                                         *)
(* The model follows the first revision of the handlers in                 *)
(* src/routes/tasks.js (lines 1-1063), the expiry job of                   *)
(* src/services/cronService.js and the audit / notification services.      *)
(* Every request handler is cut at its awaits on the database: a handler   *)
(* runs from one await to the next as one action, and handlers of          *)
(* different requests and the scheduled job interleave between them.       *)
(***************************************************************************)
EXTENDS Integers, Sequences, FiniteSets, TLC

(***************************************************************************)
(* Bounds of the model.                                                    *)
(***************************************************************************)
MaxTasks    == 1    \* tasks in the database
MaxOps      == 2    \* requests received in one behaviour
MaxInFlight == 2    \* requests being served at the same time
MaxDate     == 2    \* dates a request body can carry are 1..MaxDate
MaxNow      == 3    \* the clock counts days from 1 to MaxNow
MaxFaults   == 1    \* writes to the database that fail
MaxStored   == 2    \* tasks in the database when the jobs are studied
MaxAbsences == 1    \* absence records
MaxCreating == 1    \* creations of tasks being served at the same time
MaxHeld     == 3    \* tasks in the database when the reassignment is studied
MaxLeaves   == 2    \* absence records when the absences are studied
MaxDay      == 4    \* days an absence can begin or end at
MaxRecords  == 3    \* audit records when the absences are studied

(***************************************************************************)
(* Values.  0 is the null / undefined date, "" the null / undefined text,  *)
(* "none" an absent status field.                                          *)
(***************************************************************************)
NoDate == 0
\* a date field a request body gives as null
NullDate == 0 - 1
NoText == ""
NoStatus == "none"
NoTask == 0
NoUser == "nobody"
NoUin == 0

TaskIds == 1..MaxTasks
ReqIds  == 1..MaxInFlight
Dates   == 1..MaxDate

TASK_STATUS ==
  {"OPEN", "COMPLIANCE_REVIEW", "PRODUCT_REVIEW", "APPROVED", "PUBLISHED",
   "CLOSED_INTERNAL", "CLOSED_EXCHANGE", "EXPIRED"}

\* the validator's list with EXPIRED in it
RequestableStatusesAll ==
  {"OPEN", "COMPLIANCE_REVIEW", "PRODUCT_REVIEW", "APPROVED", "PUBLISHED",
   "CLOSED_INTERNAL", "CLOSED_EXCHANGE", "EXPIRED"}

\* body('status').optional().isIn([...]) of PUT /:taskId
RequestableStatuses ==
  {"OPEN", "COMPLIANCE_REVIEW", "PRODUCT_REVIEW", "APPROVED", "PUBLISHED",
   "CLOSED_INTERNAL", "CLOSED_EXCHANGE"}

\* statuses the seed script gives to tasks
SeedStatuses ==
  {"OPEN", "COMPLIANCE_REVIEW", "PRODUCT_REVIEW", "APPROVED", "PUBLISHED"}

TerminalStatuses == {"CLOSED_INTERNAL", "CLOSED_EXCHANGE", "EXPIRED"}

\* the transition table of section 4.1 of the specification
SpecTable ==
  [OPEN              |-> {"COMPLIANCE_REVIEW", "CLOSED_INTERNAL", "CLOSED_EXCHANGE"},
   COMPLIANCE_REVIEW |-> {"PRODUCT_REVIEW", "APPROVED", "CLOSED_INTERNAL", "CLOSED_EXCHANGE"},
   PRODUCT_REVIEW    |-> {"COMPLIANCE_REVIEW", "CLOSED_INTERNAL", "CLOSED_EXCHANGE"},
   APPROVED          |-> {"PUBLISHED", "CLOSED_INTERNAL", "CLOSED_EXCHANGE"},
   PUBLISHED         |-> {"CLOSED_INTERNAL", "CLOSED_EXCHANGE"},
   CLOSED_INTERNAL   |-> {},
   CLOSED_EXCHANGE   |-> {},
   EXPIRED           |-> {}]

(***************************************************************************)
(* Users.  comp1 is the reviewer assigned to every task, comp2 a reviewer  *)
(* assigned to none, prod1 the creator and assigned producer of every      *)
(* task, prod2 a producer with no task.                                    *)
(***************************************************************************)
UserRole ==
  [comp1 |-> "COMPLIANCE_USER", comp2 |-> "COMPLIANCE_USER",
   comp3 |-> "COMPLIANCE_ADMIN",
   prod1 |-> "PRODUCT_USER",    prod2 |-> "PRODUCT_USER",
   admin |-> "ADMIN"]

Actors == {"comp1", "prod1", "prod2"}

ProductRoles    == {"PRODUCT_USER", "PRODUCT_ADMIN"}
ComplianceRoles == {"COMPLIANCE_USER", "COMPLIANCE_ADMIN"}
ManagerRoles    == {"ADMIN", "SENIOR_MANAGER"}
UploadRoles     == {"PRODUCT_USER", "PRODUCT_ADMIN", "ADMIN"}

VARIABLES
  tasks,          \* Task collection: task id -> document
  versions,       \* Version collection: task id -> version numbers, oldest first
  comments,       \* Comment collection: task id -> authors of its comments
  notifications,  \* Notification collection, in creation order
  auditLogs,      \* AuditLog collection, in creation order
  reqs,           \* the requests being served: position in the handler, locals
  nops,           \* number of requests received
  last,           \* the response the step just taken has sent, if any
  scan,           \* the expiry job: position and locals
  now,            \* the clock, in days
  nfaults,        \* number of failed writes so far
  isActive,       \* User collection: compliance user -> isActive
  absences,       \* Absence collection
  reassign,       \* the absence reassignment job: position and locals
  jobLog          \* what the absence reassignment job has written to the console

\* the state of the users, their absences and the reassignment job
jobVars == <<isActive, absences, reassign, jobLog>>

vars == <<tasks, versions, comments, notifications, auditLogs, reqs, nops,
          last, scan, now, nfaults, isActive, absences, reassign, jobLog>>


(***************************************************************************)
(* Documents and records.                                                  *)
(***************************************************************************)
\* a task as the seed script and POST /tasks leave it, before any update
NewTask(st) ==
  [status |-> st, approvalDate |-> NoDate, expiryDate |-> NoDate,
   publishDate |-> NoDate, closureDate |-> NoDate, closureComments |-> NoText,
   createdBy |-> "prod1", assignedProductIds |-> <<"prod1">>,
   assignedComplianceId |-> "comp1", uin |-> NoUin, description |-> "draft"]

\* the uin of the t-th seeded task, 'UIN-<timestamp>-<random>': the negative
\* numbers are the UINs that do not begin with ACT<year>
SeedUin(t) == 0 - t

\* the tasks of the seed script, each with its uin
Seeded(docs) == [t \in DOMAIN docs |-> [docs[t] EXCEPT !.uin = SeedUin(t)]]

NoData ==
  [status |-> NoStatus, approvalDate |-> NoDate, expiryDate |-> NoDate,
   publishDate |-> NoDate, closureComments |-> NoText, closureDate |-> NoDate,
   description |-> NoText, uin |-> NoUin, assignedComplianceId |-> NoUser]

\* The bodies of PUT /:taskId the clients send: any status field, or none,
\* and with it any part of the fields that status calls for.
PutBodies ==
  {[NoData EXCEPT !.status = st] : st \in {NoStatus} \cup TASK_STATUS}
  \cup {[NoData EXCEPT !.status = "APPROVED", !.approvalDate = a, !.expiryDate = e] :
         a \in {NoDate} \cup Dates, e \in {NoDate} \cup Dates}
  \cup {[NoData EXCEPT !.status = "PUBLISHED", !.publishDate = d] : d \in Dates}
  \cup {[NoData EXCEPT !.status = st, !.closureComments = "remarks"] :
         st \in {"CLOSED_INTERNAL", "CLOSED_EXCHANGE"}}

\* what a handler keeps of the task document it has read
Snapshot(doc) ==
  [status |-> doc.status, assignedProductIds |-> doc.assignedProductIds,
   assignedComplianceId |-> doc.assignedComplianceId]

NoSnap ==
  [status |-> NoStatus, assignedProductIds |-> <<>>, assignedComplianceId |-> NoUser]

\* an HTTP response: status code, kind of error, the statuses its message names
Response(code, error, from, to) ==
  [code |-> code, error |-> error, from |-> from, to |-> to]

NoResp == Response(0, "", NoStatus, NoStatus)

Success(code) == Response(code, "", NoStatus, NoStatus)

\* the status change a write has committed: the status it replaced and the
\* status it wrote, NoMove when it wrote the status the task had
NoMove == <<NoStatus, NoStatus>>

Move(old, new) == IF old # new THEN <<old, new>> ELSE NoMove

IdleReq ==
  [kind |-> "none", pc |-> "idle", user |-> NoUser, task |-> NoTask,
   data |-> NoData, snap |-> NoSnap, i |-> 0, ver |-> <<0, 0>>, wrote |-> 0,
   moved |-> NoMove]

\* what is seen of a request that has been answered: the handler, the
\* response, and how many rows the request has written
Answer(kind, resp, wrote) == [kind |-> kind, resp |-> resp, wrote |-> wrote]

NoAnswer == Answer("none", NoResp, 0)

ServerError == Response(500, "ServerError", NoStatus, NoStatus)

\* at is now, found is expiredTasks, todo the part of it the loop has ahead
IdleScan ==
  [pc |-> "idle", at |-> NoDate, found |-> <<>>, todo |-> <<>>, moved |-> NoMove]

(***************************************************************************)
(* AuditService: every log method builds one record and hands it to log,   *)
(* which swallows a failure of the insert.                                 *)
(***************************************************************************)
\* oldStatus and newStatus are the statuses the details of the record name
AuditRecord(action, performedBy, taskId, old, new) ==
  [action |-> action, performedBy |-> performedBy, taskId |-> taskId,
   oldStatus |-> old, newStatus |-> new]

\* details: the title of the task and the names of the updated fields
logTaskUpdated(taskId, performedBy) ==
  AuditRecord("TASK_UPDATED", performedBy, taskId, NoStatus, NoStatus)

\* details: the title of the task and both statuses; no handler calls it
logTaskStatusChanged(taskId, oldStatus, newStatus, performedBy) ==
  AuditRecord("TASK_STATUS_CHANGED", performedBy, taskId, oldStatus, newStatus)

\* details: the title of the task, the version number, the number of files
logVersionUploaded(taskId, performedBy) ==
  AuditRecord("VERSION_UPLOADED", performedBy, taskId, NoStatus, NoStatus)

\* details: the title of the task and the kind of comment
logCommentAdded(taskId, performedBy) ==
  AuditRecord("COMMENT_ADDED", performedBy, taskId, NoStatus, NoStatus)

\* details: the title of the task
logTaskCreated(taskId, performedBy) ==
  AuditRecord("TASK_CREATED", performedBy, taskId, NoStatus, NoStatus)

\* details: the title of the task and the names of both reviewers
logTaskReassigned(taskId) ==
  AuditRecord("TASK_REASSIGNED", "SYSTEM", taskId, NoStatus, NoStatus)

\* details: the title of the task
logTaskExpired(taskId) ==
  AuditRecord("TASK_EXPIRED", "SYSTEM", taskId, NoStatus, NoStatus)

\* AuditService.log: ok is whether the insert succeeds
AuditLogged(logs, rec, ok) == IF ok THEN Append(logs, rec) ELSE logs

\* the row NotificationService.createNotification inserts
Notification(userId, type, taskId) ==
  [userId |-> userId, type |-> type, taskId |-> taskId]

(***************************************************************************)
(* PUT /:taskId, up to its first await after reading the task.             *)
(***************************************************************************)
\* validTransitions with APPROVED allowed straight from OPEN
ValidTransitionsSkipReview ==
  [OPEN              |-> {"COMPLIANCE_REVIEW", "APPROVED", "CLOSED_INTERNAL", "CLOSED_EXCHANGE"},
   COMPLIANCE_REVIEW |-> {"PRODUCT_REVIEW", "APPROVED", "CLOSED_INTERNAL", "CLOSED_EXCHANGE"},
   PRODUCT_REVIEW    |-> {"COMPLIANCE_REVIEW", "CLOSED_INTERNAL", "CLOSED_EXCHANGE"},
   APPROVED          |-> {"PUBLISHED", "CLOSED_INTERNAL", "CLOSED_EXCHANGE"},
   PUBLISHED         |-> {"CLOSED_INTERNAL", "CLOSED_EXCHANGE"}]

\* validTransitions of the handler
ValidTransitions ==
  [OPEN              |-> {"COMPLIANCE_REVIEW", "CLOSED_INTERNAL", "CLOSED_EXCHANGE"},
   COMPLIANCE_REVIEW |-> {"PRODUCT_REVIEW", "APPROVED", "CLOSED_INTERNAL", "CLOSED_EXCHANGE"},
   PRODUCT_REVIEW    |-> {"COMPLIANCE_REVIEW", "CLOSED_INTERNAL", "CLOSED_EXCHANGE"},
   APPROVED          |-> {"PUBLISHED", "CLOSED_INTERNAL", "CLOSED_EXCHANGE"},
   PUBLISHED         |-> {"CLOSED_INTERNAL", "CLOSED_EXCHANGE"}]

\* validTransitions[oldStatus]?.includes(newStatus)
IsValidTransition(oldStatus, newStatus) ==
  /\ oldStatus \in DOMAIN ValidTransitions
  /\ newStatus \in ValidTransitions[oldStatus]

\* the express-validator chain in front of the handler
PutBodyValid(body) == body.status \in {NoStatus} \cup RequestableStatuses

\* "Check access" of PUT /:taskId and POST /:taskId/comments
HasAccess(u, doc) ==
  IF UserRole[u] \in ManagerRoles THEN TRUE
  ELSE IF UserRole[u] \in ProductRoles
         THEN doc.createdBy = u
              \/ \E k \in DOMAIN doc.assignedProductIds : doc.assignedProductIds[k] = u
  ELSE IF UserRole[u] \in ComplianceRoles
         THEN doc.assignedComplianceId = u \/ UserRole[u] = "COMPLIANCE_ADMIN"
  ELSE FALSE

\* req.body.status && req.body.status !== currentTask.status
IsStatusChange(body, doc) ==
  body.status # NoStatus /\ body.status # doc.status

\* the check of the approval dates with && for ||
MissingMandatoryBothDates(body) ==
  \/ body.status = "APPROVED"
       /\ (body.approvalDate = NoDate /\ body.expiryDate = NoDate)
  \/ body.status = "PUBLISHED" /\ body.publishDate = NoDate
  \/ body.status \in {"CLOSED_INTERNAL", "CLOSED_EXCHANGE"}
       /\ body.closureComments = NoText

\* the mandatory fields of the requested status are not all in the body
MissingMandatory(body) ==
  \/ body.status = "APPROVED"
       /\ (body.approvalDate = NoDate \/ body.expiryDate = NoDate)
  \/ body.status = "PUBLISHED" /\ body.publishDate = NoDate
  \/ body.status \in {"CLOSED_INTERNAL", "CLOSED_EXCHANGE"}
       /\ body.closureComments = NoText

\* the mandatory fields of section 4.1 of the specification
MissingMandatorySpec(body) ==
  \/ body.status = "APPROVED"
       /\ (body.approvalDate = NoDate \/ body.expiryDate = NoDate)
  \/ body.status = "PUBLISHED" /\ body.publishDate = NoDate
  \/ body.status \in {"CLOSED_INTERNAL", "CLOSED_EXCHANGE"}
       /\ body.closureComments = NoText

\* "Role-based update restrictions": Object.assign(updateData, filteredData)
\* copies the allowed fields over the copy of the body, which keeps the others
FilteredUpdate(u, body) ==
  IF UserRole[u] \in ProductRoles
    THEN LET allowedFields == {"description"}
             filteredData == [f \in allowedFields |-> body[f]]
         IN [f \in DOMAIN body |->
               IF f \in DOMAIN filteredData THEN filteredData[f] ELSE body[f]]
    ELSE body

\* updateData as handed to prisma.task.update
UpdateData(u, body, doc, at) ==
  LET filtered == FilteredUpdate(u, body)
  IN IF IsStatusChange(body, doc)
          /\ body.status \in {"CLOSED_INTERNAL", "CLOSED_EXCHANGE"}
       THEN [filtered EXCEPT !.closureDate = at]
       ELSE filtered

\* the error the handler answers with before any await, NoResp when it goes on
PutRejection(u, t, body) ==
  IF ~PutBodyValid(body)
    THEN Response(400, "ValidationError", NoStatus, body.status)
  ELSE IF t \notin DOMAIN tasks
    THEN Response(404, "NotFound", NoStatus, NoStatus)
  ELSE IF ~HasAccess(u, tasks[t])
    THEN Response(403, "AccessDenied", NoStatus, NoStatus)
  ELSE IF IsStatusChange(body, tasks[t])
          /\ ~IsValidTransition(tasks[t].status, body.status)
    THEN Response(400, "InvalidTransition", tasks[t].status, body.status)
  ELSE IF IsStatusChange(body, tasks[t]) /\ MissingMandatory(body)
    THEN Response(400, "MissingField", NoStatus, NoStatus)
  ELSE NoResp

\* the users the handler notifies about the new status, in order
PutRecipients(body, doc) ==
  IF ~IsStatusChange(body, doc) THEN <<>>
  ELSE IF body.status = "PRODUCT_REVIEW" THEN doc.assignedProductIds
  ELSE IF body.status = "COMPLIANCE_REVIEW" /\ doc.assignedComplianceId # NoUser
    THEN <<doc.assignedComplianceId>>
  ELSE <<>>

PutNotificationType(status) ==
  IF status = "PRODUCT_REVIEW" THEN "TASK_ASSIGNED" ELSE "VERSION_UPLOADED"

\* prisma.task.update({ data: updateData }) on one document
ApplyUpdate(doc, data) ==
  [doc EXCEPT
     !.status = IF data.status # NoStatus THEN data.status ELSE @,
     !.approvalDate = IF data.approvalDate # NoDate THEN data.approvalDate ELSE @,
     !.expiryDate = IF data.expiryDate # NoDate THEN data.expiryDate ELSE @,
     !.publishDate = IF data.publishDate # NoDate THEN data.publishDate ELSE @,
     !.closureComments = IF data.closureComments # NoText THEN data.closureComments ELSE @,
     !.closureDate = IF data.closureDate = NullDate THEN NoDate
                     ELSE IF data.closureDate # NoDate THEN data.closureDate ELSE @,
     !.description = IF data.description # NoText THEN data.description ELSE @,
     !.uin = IF data.uin # NoUin THEN data.uin ELSE @,
     !.assignedComplianceId =
        IF data.assignedComplianceId # NoUser THEN data.assignedComplianceId ELSE @]

\* an insert may fail while the budget of faults lasts
Insert(ok) ==
  /\ ok \/ nfaults < MaxFaults
  /\ nfaults' = IF ok THEN nfaults ELSE nfaults + 1

\* request r arrives and takes the first free place
Receive(r) ==
  /\ nops < MaxOps
  /\ reqs[r].pc = "idle"
  /\ \A k \in ReqIds : k < r => reqs[k].pc # "idle"
  /\ nops' = nops + 1

\* request r is answered
Respond(r, resp, wrote) ==
  /\ reqs' = [reqs EXCEPT ![r] = IdleReq]
  /\ last' = Answer(reqs[r].kind, resp, wrote)

PutStart(r, u, t, body) ==
  /\ Receive(r)
  /\ LET rej == PutRejection(u, t, body)
     IN IF rej # NoResp
          THEN /\ last' = Answer("PUT", rej, 0)
               /\ UNCHANGED reqs
          ELSE /\ reqs' = [reqs EXCEPT ![r] =
                    [IdleReq EXCEPT
                       !.kind = "PUT", !.user = u, !.task = t,
                       !.data = UpdateData(u, body, tasks[t], now),
                       !.snap = Snapshot(tasks[t]),
                       !.i = 1,
                       !.pc = IF PutRecipients(body, tasks[t]) # <<>>
                                THEN "notify" ELSE "update"]]
               /\ last' = NoAnswer
  /\ UNCHANGED <<jobVars, tasks, versions, comments, notifications, auditLogs, scan,
                 now, nfaults>>

\* one turn of the notification loop; a failed insert is thrown to the
\* handler's catch, which answers 500
PutNotify(r, ok) ==
  LET q == reqs[r]
      to == PutRecipients(q.data, q.snap)
  IN /\ q.kind = "PUT" /\ q.pc = "notify"
     /\ Insert(ok)
     /\ IF ok
          THEN /\ notifications' = Append(notifications,
                    Notification(to[q.i], PutNotificationType(q.data.status), q.task))
               /\ reqs' = [reqs EXCEPT ![r] =
                    [q EXCEPT !.wrote = @ + 1, !.i = @ + 1,
                              !.pc = IF q.i < Len(to) THEN "notify" ELSE "update"]]
               /\ last' = NoAnswer
          ELSE /\ Respond(r, ServerError, q.wrote)
               /\ UNCHANGED notifications
     /\ UNCHANGED <<jobVars, tasks, versions, comments, auditLogs, nops, scan, now>>

PutUpdate(r) ==
  LET q == reqs[r]
  IN /\ q.kind = "PUT" /\ q.pc = "update"
     /\ tasks' = [tasks EXCEPT ![q.task] = ApplyUpdate(@, q.data)]
     /\ reqs' = [reqs EXCEPT ![r] =
          [q EXCEPT !.wrote = @ + 1, !.pc = "audit",
                    !.moved = Move(tasks[q.task].status, tasks'[q.task].status)]]
     /\ last' = NoAnswer
     /\ UNCHANGED <<jobVars, versions, comments, notifications, auditLogs, nops, scan, now, nfaults>>

PutAudit(r, ok) ==
  LET q == reqs[r]
  IN /\ q.kind = "PUT" /\ q.pc = "audit"
     /\ Insert(ok)
     /\ auditLogs' = AuditLogged(auditLogs,
                       logTaskUpdated(q.task, q.user), ok)
     /\ Respond(r, Success(200), IF ok THEN q.wrote + 1 ELSE q.wrote)
     /\ UNCHANGED <<jobVars, tasks, versions, comments, notifications, nops, scan, now>>

(***************************************************************************)
(* POST /:taskId/versions                                                  *)
(***************************************************************************)
\* "Check access" of the upload handler
HasUploadAccess(u, doc) ==
  \/ doc.createdBy = u
  \/ \E k \in DOMAIN doc.assignedProductIds : doc.assignedProductIds[k] = u
  \/ UserRole[u] = "ADMIN"

\* "Generate next version number": '1.0', or the minor of the latest plus one
NextVersionNumber(vs) ==
  IF Len(vs) > 0
    THEN LET lastVersion == vs[Len(vs)]
         IN <<lastVersion[1], lastVersion[2] + 1>>
    ELSE <<1, 0>>

VersionRejection(u, t) ==
  IF UserRole[u] \notin UploadRoles
    THEN Response(403, "InsufficientPermissions", NoStatus, NoStatus)
  ELSE IF t \notin DOMAIN tasks
    THEN Response(404, "NotFound", NoStatus, NoStatus)
  ELSE IF ~HasUploadAccess(u, tasks[t])
    THEN Response(403, "AccessDenied", NoStatus, NoStatus)
  ELSE NoResp

VersionStart(r, u, t) ==
  /\ Receive(r)
  /\ LET rej == VersionRejection(u, t)
     IN IF rej # NoResp
          THEN /\ last' = Answer("VERSION", rej, 0)
               /\ UNCHANGED reqs
          ELSE /\ reqs' = [reqs EXCEPT ![r] =
                    [IdleReq EXCEPT
                       !.kind = "VERSION", !.user = u, !.task = t,
                       !.snap = Snapshot(tasks[t]),
                       !.ver = NextVersionNumber(versions[t]),
                       !.pc = "create"]]
               /\ last' = NoAnswer
  /\ UNCHANGED <<jobVars, tasks, versions, comments, notifications, auditLogs, scan,
                 now, nfaults>>

VersionCreate(r) ==
  LET q == reqs[r]
  IN /\ q.kind = "VERSION" /\ q.pc = "create"
     /\ versions' = [versions EXCEPT ![q.task] = Append(@, q.ver)]
     /\ reqs' = [reqs EXCEPT ![r] = [q EXCEPT !.wrote = @ + 1, !.pc = "update"]]
     /\ last' = NoAnswer
     /\ UNCHANGED <<jobVars, tasks, comments, notifications, auditLogs, nops, scan, now, nfaults>>

\* an upload that leaves an approved or published task as it is
UploadStatusKeepingApproved(doc) ==
  IF doc.status \in {"APPROVED", "PUBLISHED"} THEN doc.status ELSE "COMPLIANCE_REVIEW"

\* the status the upload handler writes, whatever status the task has
UploadStatus(doc) == "COMPLIANCE_REVIEW"

VersionUpdate(r) ==
  LET q == reqs[r]
  IN /\ q.kind = "VERSION" /\ q.pc = "update"
     /\ tasks' = [tasks EXCEPT ![q.task].status = UploadStatus(tasks[q.task])]
     /\ reqs' = [reqs EXCEPT ![r] =
          [q EXCEPT !.wrote = @ + 1, !.pc = "audit",
                    !.moved = Move(tasks[q.task].status, tasks'[q.task].status)]]
     /\ last' = NoAnswer
     /\ UNCHANGED <<jobVars, versions, comments, notifications, auditLogs, nops, scan, now, nfaults>>

VersionAudit(r, ok) ==
  LET q == reqs[r]
      wrote == IF ok THEN q.wrote + 1 ELSE q.wrote
  IN /\ q.kind = "VERSION" /\ q.pc = "audit"
     /\ Insert(ok)
     /\ auditLogs' = AuditLogged(auditLogs, logVersionUploaded(q.task, q.user), ok)
     /\ IF q.snap.assignedComplianceId # NoUser
          THEN /\ reqs' = [reqs EXCEPT ![r] =
                    [q EXCEPT !.wrote = wrote, !.pc = "notify"]]
               /\ last' = NoAnswer
          ELSE Respond(r, Success(201), wrote)
     /\ UNCHANGED <<jobVars, tasks, versions, comments, notifications, nops, scan, now>>

VersionNotify(r, ok) ==
  LET q == reqs[r]
  IN /\ q.kind = "VERSION" /\ q.pc = "notify"
     /\ Insert(ok)
     /\ IF ok
          THEN /\ notifications' = Append(notifications,
                    Notification(q.snap.assignedComplianceId, "VERSION_UPLOADED", q.task))
               /\ Respond(r, Success(201), q.wrote + 1)
          ELSE /\ Respond(r, ServerError, q.wrote)
               /\ UNCHANGED notifications
     /\ UNCHANGED <<jobVars, tasks, versions, comments, auditLogs, nops, scan, now>>

(***************************************************************************)
(* POST /:taskId/comments                                                  *)
(***************************************************************************)
CommentRejection(u, t) ==
  IF t \notin DOMAIN tasks
    THEN Response(404, "NotFound", NoStatus, NoStatus)
  ELSE IF ~HasAccess(u, tasks[t])
    THEN Response(403, "AccessDenied", NoStatus, NoStatus)
  ELSE NoResp

\* the update without its condition on the status
CommentMovesTaskAnyStatus(u, snap) ==
  UserRole[u] \in ComplianceRoles

\* "Update task status if compliance user is commenting"
CommentMovesTask(u, snap) ==
  UserRole[u] \in ComplianceRoles /\ snap.status = "COMPLIANCE_REVIEW"

CommentStart(r, u, t) ==
  /\ Receive(r)
  /\ LET rej == CommentRejection(u, t)
     IN IF rej # NoResp
          THEN /\ last' = Answer("COMMENT", rej, 0)
               /\ UNCHANGED reqs
          ELSE /\ reqs' = [reqs EXCEPT ![r] =
                    [IdleReq EXCEPT
                       !.kind = "COMMENT", !.user = u, !.task = t,
                       !.snap = Snapshot(tasks[t]), !.pc = "create"]]
               /\ last' = NoAnswer
  /\ UNCHANGED <<jobVars, tasks, versions, comments, notifications, auditLogs, scan,
                 now, nfaults>>

CommentCreate(r) ==
  LET q == reqs[r]
  IN /\ q.kind = "COMMENT" /\ q.pc = "create"
     /\ comments' = [comments EXCEPT ![q.task] = Append(@, q.user)]
     /\ reqs' = [reqs EXCEPT ![r] =
                   [q EXCEPT !.wrote = @ + 1,
                             !.pc = IF CommentMovesTask(q.user, q.snap)
                                      THEN "update" ELSE "audit"]]
     /\ last' = NoAnswer
     /\ UNCHANGED <<jobVars, tasks, versions, notifications, auditLogs, nops, scan, now, nfaults>>

CommentUpdate(r) ==
  LET q == reqs[r]
  IN /\ q.kind = "COMMENT" /\ q.pc = "update"
     /\ tasks' = [tasks EXCEPT ![q.task].status = "PRODUCT_REVIEW"]
     /\ reqs' = [reqs EXCEPT ![r] =
                   [q EXCEPT !.wrote = @ + 1, !.i = 1,
                             !.moved = Move(tasks[q.task].status, "PRODUCT_REVIEW"),
                             !.pc = IF q.snap.assignedProductIds # <<>>
                                      THEN "notify" ELSE "audit"]]
     /\ last' = NoAnswer
     /\ UNCHANGED <<jobVars, versions, comments, notifications, auditLogs, nops, scan, now, nfaults>>

CommentNotify(r, ok) ==
  LET q == reqs[r]
      to == q.snap.assignedProductIds
  IN /\ q.kind = "COMMENT" /\ q.pc = "notify"
     /\ Insert(ok)
     /\ IF ok
          THEN /\ notifications' = Append(notifications,
                    Notification(to[q.i], "COMMENT_ADDED", q.task))
               /\ reqs' = [reqs EXCEPT ![r] =
                    [q EXCEPT !.wrote = @ + 1, !.i = @ + 1,
                              !.pc = IF q.i < Len(to) THEN "notify" ELSE "audit"]]
               /\ last' = NoAnswer
          ELSE /\ Respond(r, ServerError, q.wrote)
               /\ UNCHANGED notifications
     /\ UNCHANGED <<jobVars, tasks, versions, comments, auditLogs, nops, scan, now>>

CommentAudit(r, ok) ==
  LET q == reqs[r]
  IN /\ q.kind = "COMMENT" /\ q.pc = "audit"
     /\ Insert(ok)
     /\ auditLogs' = AuditLogged(auditLogs, logCommentAdded(q.task, q.user), ok)
     /\ Respond(r, Success(201), IF ok THEN q.wrote + 1 ELSE q.wrote)
     /\ UNCHANGED <<jobVars, tasks, versions, comments, notifications, nops, scan, now>>

(***************************************************************************)
(* CronService.startTaskExpirationJob.  The job runs at midnight: a run    *)
(* begins a new day.                                                       *)
(***************************************************************************)
\* the query with lte for lt
IsExpiredInclusive(doc, at) ==
  /\ doc.expiryDate # NoDate
  /\ doc.expiryDate <= at
  /\ doc.status \in {"APPROVED", "PUBLISHED"}

\* the query without its condition on the status
IsExpiredAnyStatus(doc, at) ==
  /\ doc.expiryDate # NoDate
  /\ doc.expiryDate < at

\* where: { expiryDate: { lt: now }, status: { in: ['APPROVED', 'PUBLISHED'] } }
IsExpired(doc, at) ==
  /\ doc.expiryDate # NoDate
  /\ doc.expiryDate < at
  /\ doc.status \in {"APPROVED", "PUBLISHED"}

RECURSIVE ExpiredFrom(_, _)
\* the ids from t on of the tasks the query returns, ascending
ExpiredFrom(t, at) ==
  IF t > Len(tasks) THEN <<>>
  ELSE IF IsExpired(tasks[t], at) THEN <<t>> \o ExpiredFrom(t + 1, at)
  ELSE ExpiredFrom(t + 1, at)

ExpiredTasks(at) == ExpiredFrom(1, at)

AutoClosureComments == "Automatically expired due to expiry date"

ScanStart ==
  /\ scan.pc = "idle"
  /\ now < MaxNow
  /\ now' = now + 1
  /\ scan' = IF ExpiredTasks(now') = <<>>
               THEN IdleScan
               ELSE [IdleScan EXCEPT !.pc = "update", !.at = now',
                                     !.found = ExpiredTasks(now'),
                                     !.todo = ExpiredTasks(now')]
  /\ last' = NoAnswer
  /\ UNCHANGED <<jobVars, tasks, versions, comments, notifications, auditLogs, reqs,
                 nops, nfaults>>

ScanUpdate ==
  LET t == Head(scan.todo)
  IN /\ scan.pc = "update"
     /\ tasks' = [tasks EXCEPT ![t].status = "EXPIRED",
                               ![t].closureDate = scan.at,
                               ![t].closureComments = AutoClosureComments]
     /\ scan' = [scan EXCEPT !.pc = "audit",
                             !.moved = Move(tasks[t].status, "EXPIRED")]
     /\ last' = NoAnswer
     /\ UNCHANGED <<jobVars, versions, comments, notifications, auditLogs, reqs, nops,
                    now, nfaults>>

\* prisma.task.update throws: the catch around the run ends it
ScanUpdateFails ==
  /\ scan.pc = "update"
  /\ Insert(FALSE)
  /\ scan' = IdleScan
  /\ last' = NoAnswer
  /\ UNCHANGED <<jobVars, tasks, versions, comments, notifications, auditLogs,
                 reqs, nops, now>>

ScanAudit(ok) ==
  LET t == Head(scan.todo)
  IN /\ scan.pc = "audit"
     /\ Insert(ok)
     /\ auditLogs' = AuditLogged(auditLogs, logTaskExpired(t), ok)
     /\ scan' = IF Tail(scan.todo) = <<>>
                  THEN IdleScan
                  ELSE [scan EXCEPT !.pc = "update", !.todo = Tail(@),
                                    !.moved = NoMove]
     /\ last' = NoAnswer
     /\ UNCHANGED <<jobVars, tasks, versions, comments, notifications, reqs, nops,
                    now>>

(***************************************************************************)
(* Compliance users, their absences and their workload.                    *)
(***************************************************************************)
\* the compliance users in the order prisma.user.findMany returns them
ComplianceUsers ==
  SelectSeq(<<"comp1", "comp2", "comp3">>, LAMBDA u : u \in DOMAIN isActive)

Reviewers == {ComplianceUsers[k] : k \in DOMAIN ComplianceUsers}

\* the compliance users of a database with two of them, and with three
TwoReviewers   == {"comp1", "comp2"}
ThreeReviewers == {"comp1", "comp2", "comp3"}

\* the include with the status COMPLIANCE_REVIEW alone
WorkloadStatusesReviewOnly == {"COMPLIANCE_REVIEW"}

\* status: { in: ['OPEN', 'COMPLIANCE_REVIEW'] } of the complianceTasks include
WorkloadStatuses == {"OPEN", "COMPLIANCE_REVIEW"}

Absence(userId, fromDate, toDate) ==
  [userId |-> userId, fromDate |-> fromDate, toDate |-> toDate]

\* fromDate: { lte: day }, toDate: { gte: day }
Covers(a, day) == a.fromDate <= day /\ a.toDate >= day

\* absences: { some: { fromDate <= day, toDate >= day } }
IsAbsent(u, day) == \E a \in absences : a.userId = u /\ Covers(a, day)

\* the ids of the tasks of reviewer u the complianceTasks include returns
ComplianceTasks(u) ==
  {t \in DOMAIN tasks : /\ tasks[t].assignedComplianceId = u
                        /\ tasks[t].status \in WorkloadStatuses}

\* complianceTasks.length of every user
Workloads == [u \in Reviewers |-> Cardinality(ComplianceTasks(u))]

\* the query without its condition on the absences
AvailableComplianceUsersActive(day) ==
  SelectSeq(ComplianceUsers,
            LAMBDA u : /\ UserRole[u] \in ComplianceRoles
                       /\ isActive[u])

\* availableComplianceUsers of POST /
AvailableComplianceUsers(day) ==
  SelectSeq(ComplianceUsers,
            LAMBDA u : /\ UserRole[u] \in ComplianceRoles
                       /\ isActive[u]
                       /\ ~IsAbsent(u, day))

RECURSIVE ReduceKeepingTies(_, _, _, _)
\* the reduce with <= for <
ReduceKeepingTies(users, load, k, prev) ==
  IF k > Len(users) THEN prev
  ELSE ReduceKeepingTies(users, load, k + 1,
              IF load[prev] <= load[users[k]] THEN prev ELSE users[k])

RECURSIVE Reduce(_, _, _, _)
\* users.reduce((prev, current) =>
\*   (prev.complianceTasks.length < current.complianceTasks.length) ? prev : current)
\* from element k on, with prev the value carried so far
Reduce(users, load, k, prev) ==
  IF k > Len(users) THEN prev
  ELSE Reduce(users, load, k + 1,
              IF load[prev] < load[users[k]] THEN prev ELSE users[k])

\* the user the reduce returns for a list that is not empty
LeastLoaded(users, load) == Reduce(users, load, 2, users[1])

(***************************************************************************)
(* POST / (create task), from the read of the candidates on.               *)
(***************************************************************************)
\* the users that send POST /: a producer, and a reviewer, who may not
Creators == {"prod1", "comp1"}

\* the last number three digits hold
YearFull == 999

\* the status the schema gives to a task created without one
CreatedStatus == "OPEN"

\* data of prisma.task.create
CreatedTask(u, reviewer, uin) ==
  [NewTask(CreatedStatus) EXCEPT !.createdBy = u,
                                 !.assignedComplianceId = reviewer,
                                 !.uin = uin]

\* A uin that begins with ACT<year> is held as the number n > 0 its digits
\* read as: the string is the prefix and n.toString().padStart(3, '0'), so
\* two such strings are equal exactly when their numbers are.
\* parseInt(lastTask.uin.slice(-3)): the number of the last three digits
LastNumber(uin) == uin % 1000

\* generateUIN on the Task collection docs, oldest first: findFirst with
\* uin startsWith the prefix, orderBy createdAt desc
generateUIN(docs) ==
  LET ofYear == {t \in DOMAIN docs : docs[t].uin > NoUin}
  IN IF ofYear = {} THEN 1
     ELSE LET lastTask == docs[CHOOSE t \in ofYear : \A k \in ofYear : k <= t]
          IN LastNumber(lastTask.uin) + 1

CreateRejection(u) ==
  IF UserRole[u] \notin UploadRoles
    THEN Response(403, "InsufficientPermissions", NoStatus, NoStatus)
  ELSE IF AvailableComplianceUsers(now) = <<>>
    THEN Response(400, "NoAvailableReviewer", NoStatus, NoStatus)
  ELSE NoResp

\* POST / up to its second await; snap.assignedComplianceId is
\* assignedCompliance
StartCreate(r, u) ==
  /\ Receive(r)
  /\ LET rej == CreateRejection(u)
     IN IF rej # NoResp
          THEN /\ last' = Answer("CREATE", rej, 0)
               /\ UNCHANGED reqs
          ELSE /\ reqs' = [reqs EXCEPT ![r] =
                    [IdleReq EXCEPT
                       !.kind = "CREATE", !.user = u,
                       !.snap = [NoSnap EXCEPT !.assignedComplianceId =
                                   LeastLoaded(AvailableComplianceUsers(now), Workloads)],
                       !.pc = "uin"]]
               /\ last' = NoAnswer
  /\ UNCHANGED <<jobVars, tasks, versions, comments, notifications, auditLogs,
                 scan, now, nfaults>>

\* POST / while fewer than MaxCreating creations are being served
CreateStart(r, u) ==
  /\ Cardinality({k \in ReqIds : reqs[k].kind = "CREATE"}) < MaxCreating
  /\ StartCreate(r, u)

\* await generateUIN(); i is the uin it returns
CreateUin(r) ==
  LET q == reqs[r]
  IN /\ q.kind = "CREATE" /\ q.pc = "uin"
     /\ reqs' = [reqs EXCEPT ![r] = [q EXCEPT !.i = generateUIN(tasks), !.pc = "create"]]
     /\ last' = NoAnswer
     /\ UNCHANGED <<jobVars, tasks, versions, comments, notifications, auditLogs,
                    nops, scan, now, nfaults>>

CreateTask(r) ==
  LET q == reqs[r]
  IN /\ q.kind = "CREATE" /\ q.pc = "create"
     /\ tasks' = Append(tasks, CreatedTask(q.user, q.snap.assignedComplianceId, q.i))
     /\ reqs' = [reqs EXCEPT ![r] =
          [q EXCEPT !.task = Len(tasks) + 1, !.wrote = @ + 1, !.pc = "audit"]]
     /\ last' = NoAnswer
     /\ UNCHANGED <<jobVars, versions, comments, notifications, auditLogs, nops,
                    scan, now, nfaults>>

CreateAudit(r, ok) ==
  LET q == reqs[r]
  IN /\ q.kind = "CREATE" /\ q.pc = "audit"
     /\ Insert(ok)
     /\ auditLogs' = AuditLogged(auditLogs, logTaskCreated(q.task, q.user), ok)
     /\ reqs' = [reqs EXCEPT ![r] =
          [q EXCEPT !.wrote = IF ok THEN @ + 1 ELSE @, !.pc = "notify"]]
     /\ last' = NoAnswer
     /\ UNCHANGED <<jobVars, tasks, versions, comments, notifications, nops, scan, now>>

\* sendTaskAssignedNotification; a failed insert is thrown to the catch
CreateNotify(r, ok) ==
  LET q == reqs[r]
  IN /\ q.kind = "CREATE" /\ q.pc = "notify"
     /\ Insert(ok)
     /\ IF ok
          THEN /\ notifications' = Append(notifications,
                    Notification(q.snap.assignedComplianceId, "TASK_ASSIGNED", q.task))
               /\ Respond(r, Success(201), q.wrote + 1)
          ELSE /\ Respond(r, ServerError, q.wrote)
               /\ UNCHANGED notifications
     /\ UNCHANGED <<jobVars, tasks, versions, comments, auditLogs, nops, scan, now>>

(***************************************************************************)
(* POST /absences and PUT /:userId of the user routes, sent by an          *)
(* administrator.  The reads of a handler and its write are one step.      *)
(***************************************************************************)
\* "Check for overlapping absences": an absence of the user that holds the
\* new fromDate or the new toDate
OverlappingAbsence(u, fromDate, toDate) ==
  \E a \in absences :
    /\ a.userId = u
    /\ \/ a.fromDate <= fromDate /\ a.toDate >= fromDate
       \/ a.fromDate <= toDate /\ a.toDate >= toDate

AbsenceRejection(u, fromDate, toDate) ==
  IF UserRole[u] \notin ComplianceRoles
    THEN Response(400, "NotComplianceUser", NoStatus, NoStatus)
  ELSE IF fromDate >= toDate
    THEN Response(400, "InvalidDateRange", NoStatus, NoStatus)
  ELSE IF OverlappingAbsence(u, fromDate, toDate)
    THEN Response(400, "OverlappingAbsence", NoStatus, NoStatus)
  ELSE NoResp

\* POST /absences: prisma.absence.create, the ABSENCE_CREATED record, 201
PostAbsence(u, fromDate, toDate, ok) ==
  /\ LET rej == AbsenceRejection(u, fromDate, toDate)
     IN IF rej # NoResp
          THEN /\ ok
               /\ last' = Answer("ABSENCE", rej, 0)
               /\ UNCHANGED <<absences, auditLogs, nfaults>>
          ELSE /\ Insert(ok)
               /\ absences' = absences \cup {Absence(u, fromDate, toDate)}
               /\ auditLogs' = AuditLogged(auditLogs,
                    AuditRecord("ABSENCE_CREATED", "admin", NoTask, NoStatus, NoStatus), ok)
               /\ last' = Answer("ABSENCE", Success(201), IF ok THEN 2 ELSE 1)
  /\ UNCHANGED <<tasks, versions, comments, notifications, reqs, nops, scan, now,
                 isActive, reassign, jobLog>>

\* POST /absences while the collection holds fewer than MaxAbsences records
AbsencePost(u, fromDate, toDate, ok) ==
  /\ Cardinality(absences) < MaxAbsences
  /\ PostAbsence(u, fromDate, toDate, ok)

\* DELETE /absences/:absenceId of a record that exists: prisma.absence.delete,
\* the ABSENCE_DELETED record, 200
AbsenceDelete(a, ok) ==
  /\ a \in absences
  /\ Insert(ok)
  /\ absences' = absences \ {a}
  /\ auditLogs' = AuditLogged(auditLogs,
       AuditRecord("ABSENCE_DELETED", "admin", NoTask, NoStatus, NoStatus), ok)
  /\ last' = Answer("ABSENCE_DELETE", Success(200), IF ok THEN 2 ELSE 1)
  /\ UNCHANGED <<tasks, versions, comments, notifications, reqs, nops, scan, now,
                 isActive, reassign, jobLog>>

\* PUT /:userId with { isActive: false }: prisma.user.update, the
\* USER_UPDATED record, 200
UserDeactivate(u, ok) ==
  /\ isActive[u]
  /\ Insert(ok)
  /\ isActive' = [isActive EXCEPT ![u] = FALSE]
  /\ auditLogs' = AuditLogged(auditLogs,
       AuditRecord("USER_UPDATED", "admin", NoTask, NoStatus, NoStatus), ok)
  /\ last' = Answer("USER", Success(200), IF ok THEN 2 ELSE 1)
  /\ UNCHANGED <<tasks, versions, comments, notifications, reqs, nops, scan, now,
                 absences, reassign, jobLog>>

(***************************************************************************)
(* CronService.startAbsenceReassignmentJob.  The job runs once a day, at   *)
(* six in the morning.                                                     *)
(***************************************************************************)
\* day is the day of the last run, absent what is left of absentUsers, user
\* the absent user at hand, found activeTasks, todo the part of it the loop
\* has ahead, target targetUser
IdleReassign ==
  [pc |-> "idle", day |-> NoDate, absent |-> <<>>, user |-> NoUser,
   found |-> <<>>, todo |-> <<>>, target |-> NoUser]

\* the users of the absences that hold the day, one entry for each user
AbsentUsers(day) == SelectSeq(ComplianceUsers, LAMBDA u : IsAbsent(u, day))

RECURSIVE ActiveTasksFrom(_, _)
\* the ids from t on of the active tasks assigned to u, ascending
ActiveTasksFrom(u, t) ==
  IF t > Len(tasks) THEN <<>>
  ELSE IF t \in ComplianceTasks(u) THEN <<t>> \o ActiveTasksFrom(u, t + 1)
  ELSE ActiveTasksFrom(u, t + 1)

\* activeTasks of the absent user u
ActiveTasks(u) == ActiveTasksFrom(u, 1)

\* the query without its condition on isActive
AvailableUsersInactiveToo(u, day) ==
  SelectSeq(ComplianceUsers,
            LAMBDA v : /\ UserRole[v] \in ComplianceRoles
                       /\ v # u
                       /\ ~IsAbsent(v, day))

\* availableUsers for the tasks of the absent user u
AvailableUsers(u, day) ==
  SelectSeq(ComplianceUsers,
            LAMBDA v : /\ UserRole[v] \in ComplianceRoles
                       /\ isActive[v]
                       /\ v # u
                       /\ ~IsAbsent(v, day))

\* console.log of a finished reassignment
Reassigned(n, fromUser, toUser) ==
  [line |-> "Reassigned", n |-> n, fromUser |-> fromUser, toUser |-> toUser]

\* console.error of the catch around the run
JobFailed ==
  [line |-> "Absence reassignment job failed", n |-> 0, fromUser |-> NoUser,
   toUser |-> NoUser]

\* the job, with the absent users ahead, on its way to the next of them
NextAbsent(job, absent) ==
  IF absent = <<>>
    THEN [IdleReassign EXCEPT !.day = job.day]
    ELSE [job EXCEPT !.pc = "user", !.absent = absent, !.user = NoUser,
                     !.found = <<>>, !.todo = <<>>, !.target = NoUser]

ReassignStart ==
  /\ reassign.pc = "idle"
  /\ reassign.day # now
  /\ reassign' = NextAbsent([IdleReassign EXCEPT !.day = now], AbsentUsers(now))
  /\ last' = NoAnswer
  /\ UNCHANGED <<tasks, versions, comments, notifications, auditLogs, reqs, nops,
                 scan, now, nfaults, isActive, absences, jobLog>>

\* one absent user: the queries for activeTasks and availableUsers, the reduce
ReassignUser ==
  LET u == Head(reassign.absent)
      activeTasks == ActiveTasks(u)
      availableUsers == AvailableUsers(u, reassign.day)
  IN /\ reassign.pc = "user"
     /\ reassign' =
          IF \/ UserRole[u] \notin ComplianceRoles
             \/ activeTasks = <<>>
             \/ availableUsers = <<>>
            THEN NextAbsent(reassign, Tail(reassign.absent))
            ELSE [reassign EXCEPT !.pc = "update", !.user = u,
                                  !.found = activeTasks,
                                  !.todo = activeTasks,
                                  !.target = LeastLoaded(availableUsers, Workloads)]
     /\ last' = NoAnswer
     /\ UNCHANGED <<tasks, versions, comments, notifications, auditLogs, reqs, nops,
                    scan, now, nfaults, isActive, absences, jobLog>>

ReassignUpdate ==
  LET t == Head(reassign.todo)
  IN /\ reassign.pc = "update"
     /\ tasks' = [tasks EXCEPT ![t].assignedComplianceId = reassign.target]
     /\ reassign' = [reassign EXCEPT !.pc = "notify"]
     /\ last' = NoAnswer
     /\ UNCHANGED <<versions, comments, notifications, auditLogs, reqs, nops,
                    scan, now, nfaults, isActive, absences, jobLog>>

\* sendNotification; a failed insert is thrown to the catch around the run
ReassignNotify(ok) ==
  LET t == Head(reassign.todo)
  IN /\ reassign.pc = "notify"
     /\ Insert(ok)
     /\ IF ok
          THEN /\ notifications' = Append(notifications,
                    Notification(reassign.target, "TASK_ASSIGNED", t))
               /\ reassign' = [reassign EXCEPT !.pc = "audit"]
               /\ UNCHANGED jobLog
          ELSE /\ reassign' = [IdleReassign EXCEPT !.day = reassign.day]
               /\ jobLog' = Append(jobLog, JobFailed)
               /\ UNCHANGED notifications
     /\ last' = NoAnswer
     /\ UNCHANGED <<tasks, versions, comments, auditLogs, reqs, nops, scan, now,
                    isActive, absences>>

ReassignAudit(ok) ==
  LET t == Head(reassign.todo)
  IN /\ reassign.pc = "audit"
     /\ Insert(ok)
     /\ auditLogs' = AuditLogged(auditLogs, logTaskReassigned(t), ok)
     /\ IF Tail(reassign.todo) # <<>>
          THEN /\ reassign' = [reassign EXCEPT !.pc = "update", !.todo = Tail(@)]
               /\ UNCHANGED jobLog
          ELSE /\ reassign' = NextAbsent(reassign, Tail(reassign.absent))
               /\ jobLog' = Append(jobLog,
                    Reassigned(Len(reassign.found), reassign.user, reassign.target))
     /\ last' = NoAnswer
     /\ UNCHANGED <<tasks, versions, comments, notifications, reqs, nops, scan,
                    now, isActive, absences>>

(***************************************************************************)
(* The system.  The database holds the seeded tasks.                       *)
(***************************************************************************)
Init ==
  /\ tasks \in {Seeded(f) : f \in [TaskIds -> {NewTask(st) : st \in SeedStatuses}]}
  /\ versions = [t \in TaskIds |-> <<>>]
  /\ comments = [t \in TaskIds |-> <<>>]
  /\ notifications = <<>>
  /\ auditLogs = <<>>
  /\ reqs = [r \in ReqIds |-> IdleReq]
  /\ nops = 0
  /\ last = NoAnswer
  /\ scan = IdleScan
  /\ now = 1
  /\ nfaults = 0
  /\ isActive = [u \in TwoReviewers |-> TRUE]
  /\ absences = {}
  /\ reassign = IdleReassign
  /\ jobLog = <<>>

Next ==
  \/ \E r \in ReqIds, u \in Actors, t \in TaskIds \cup {NoTask}, body \in PutBodies :
       PutStart(r, u, t, body)
  \/ \E r \in ReqIds, ok \in BOOLEAN : PutNotify(r, ok)
  \/ \E r \in ReqIds : PutUpdate(r)
  \/ \E r \in ReqIds, ok \in BOOLEAN : PutAudit(r, ok)
  \/ \E r \in ReqIds, u \in Actors, t \in TaskIds \cup {NoTask} : VersionStart(r, u, t)
  \/ \E r \in ReqIds : VersionCreate(r)
  \/ \E r \in ReqIds : VersionUpdate(r)
  \/ \E r \in ReqIds, ok \in BOOLEAN : VersionAudit(r, ok)
  \/ \E r \in ReqIds, ok \in BOOLEAN : VersionNotify(r, ok)
  \/ \E r \in ReqIds, u \in Actors, t \in TaskIds \cup {NoTask} : CommentStart(r, u, t)
  \/ \E r \in ReqIds : CommentCreate(r)
  \/ \E r \in ReqIds : CommentUpdate(r)
  \/ \E r \in ReqIds, ok \in BOOLEAN : CommentNotify(r, ok)
  \/ \E r \in ReqIds, ok \in BOOLEAN : CommentAudit(r, ok)
  \/ ScanStart
  \/ ScanUpdate
  \/ \E ok \in BOOLEAN : ScanAudit(ok)

Spec == Init /\ [][Next]_vars

(***************************************************************************)
(* The expiry job alone, on a database that holds tasks of every kind.     *)
(***************************************************************************)
\* a task as the requests can have left it: not approved yet, approved or
\* published with its dates, closed after its approval
StoredTasks ==
  {NewTask(st) : st \in {"OPEN", "COMPLIANCE_REVIEW"}}
  \cup {[NewTask("APPROVED") EXCEPT !.approvalDate = 1, !.expiryDate = e] :
          e \in Dates}
  \cup {[NewTask("PUBLISHED") EXCEPT !.approvalDate = 1, !.expiryDate = e,
                                     !.publishDate = 1] : e \in Dates}
  \cup {[NewTask("CLOSED_INTERNAL") EXCEPT !.approvalDate = 1, !.expiryDate = 1,
                                           !.closureDate = 1,
                                           !.closureComments = "remarks"]}

ExpiryInit ==
  /\ tasks \in {Seeded(f) : f \in [1..MaxStored -> StoredTasks]}
  /\ versions = [t \in 1..MaxStored |-> <<>>]
  /\ comments = [t \in 1..MaxStored |-> <<>>]
  /\ notifications = <<>>
  /\ auditLogs = <<>>
  /\ reqs = [r \in ReqIds |-> IdleReq]
  /\ nops = 0
  /\ last = NoAnswer
  /\ scan = IdleScan
  /\ now = 1
  /\ nfaults = 0
  /\ isActive = [u \in TwoReviewers |-> TRUE]
  /\ absences = {}
  /\ reassign = IdleReassign
  /\ jobLog = <<>>

ExpiryNext ==
  \/ ScanStart
  \/ ScanUpdate
  \/ ScanUpdateFails
  \/ \E ok \in BOOLEAN : ScanAudit(ok)

ExpirySpec == ExpiryInit /\ [][ExpiryNext]_vars

(***************************************************************************)
(* Task creation, absences, deactivation and the reassignment job.         *)
(***************************************************************************)
\* a task with its reviewer, before its approval
AssignedTasks(users) ==
  {[NewTask(st) EXCEPT !.assignedComplianceId = u] :
     st \in {"OPEN", "COMPLIANCE_REVIEW", "PRODUCT_REVIEW"}, u \in users}

AssignInit ==
  /\ tasks \in {Seeded(f) : f \in [1..MaxStored -> AssignedTasks(TwoReviewers)]}
  /\ versions = [t \in 1..MaxStored |-> <<>>]
  /\ comments = [t \in 1..MaxStored |-> <<>>]
  /\ notifications = <<>>
  /\ auditLogs = <<>>
  /\ reqs = [r \in ReqIds |-> IdleReq]
  /\ nops = 0
  /\ last = NoAnswer
  /\ scan = IdleScan
  /\ now = 1
  /\ nfaults = 0
  /\ isActive = [u \in TwoReviewers |-> TRUE]
  /\ absences = {}
  /\ reassign = IdleReassign
  /\ jobLog = <<>>

\* what the server runs of this part: the job is not among the jobs that
\* startExpiryNotifications starts
ServerNext ==
  \/ \E r \in ReqIds, u \in Creators : CreateStart(r, u)
  \/ \E r \in ReqIds : CreateUin(r)
  \/ \E r \in ReqIds : CreateTask(r)
  \/ \E r \in ReqIds, ok \in BOOLEAN : CreateAudit(r, ok)
  \/ \E r \in ReqIds, ok \in BOOLEAN : CreateNotify(r, ok)
  \/ \E u \in Reviewers, d \in 1..2, e \in 1..2, ok \in BOOLEAN :
       AbsencePost(u, d, e, ok)
  \/ \E u \in Reviewers, ok \in BOOLEAN : UserDeactivate(u, ok)

\* the steps of a handler after its first await
ServerSteps ==
  \/ \E r \in ReqIds : CreateUin(r)
  \/ \E r \in ReqIds : CreateTask(r)
  \/ \E r \in ReqIds, ok \in BOOLEAN : CreateAudit(r, ok)
  \/ \E r \in ReqIds, ok \in BOOLEAN : CreateNotify(r, ok)

\* the event loop goes on with a handler whose await has settled; whether
\* a request arrives is up to the clients
ServerSpec == AssignInit /\ [][ServerNext]_vars /\ WF_vars(ServerSteps)

\* bodies of PUT /:taskId with fields the validator chain does not name,
\* alone and beside a description or a status
FieldBodies ==
  {[NoData EXCEPT !.description = d, !.status = st, !.uin = n,
                  !.assignedComplianceId = c] :
     d \in {NoText, "edited"}, st \in {NoStatus, "COMPLIANCE_REVIEW"},
     n \in {NoUin, 1}, c \in {NoUser, "comp2"}}

\* PUT /:taskId alone, on the seeded tasks
FieldNext ==
  \/ \E r \in ReqIds, u \in Actors, t \in TaskIds, body \in FieldBodies :
       PutStart(r, u, t, body)
  \/ \E r \in ReqIds, ok \in BOOLEAN : PutNotify(r, ok)
  \/ \E r \in ReqIds : PutUpdate(r)
  \/ \E r \in ReqIds, ok \in BOOLEAN : PutAudit(r, ok)

FieldSpec == Init /\ [][FieldNext]_vars

\* the first n tasks that POST / has created in the year
CreatedBefore(n) == [t \in 1..n |-> CreatedTask("prod1", "comp1", t)]

\* the database after no creation of the year, after one, and after
\* YearFull of them
UinInit ==
  /\ tasks \in {CreatedBefore(n) : n \in {0, 1, YearFull}}
  /\ versions = [t \in DOMAIN tasks |-> <<>>]
  /\ comments = [t \in DOMAIN tasks |-> <<>>]
  /\ notifications = <<>>
  /\ auditLogs = <<>>
  /\ reqs = [r \in ReqIds |-> IdleReq]
  /\ nops = 0
  /\ last = NoAnswer
  /\ scan = IdleScan
  /\ now = 1
  /\ nfaults = 0
  /\ isActive = [u \in TwoReviewers |-> TRUE]
  /\ absences = {}
  /\ reassign = IdleReassign
  /\ jobLog = <<>>

\* creations of tasks, served at the same time
UinNext ==
  \/ \E r \in ReqIds, u \in Creators : StartCreate(r, u)
  \/ \E r \in ReqIds : CreateUin(r)
  \/ \E r \in ReqIds : CreateTask(r)
  \/ \E r \in ReqIds, ok \in BOOLEAN : CreateAudit(r, ok)
  \/ \E r \in ReqIds, ok \in BOOLEAN : CreateNotify(r, ok)

UinSpec == UinInit /\ [][UinNext]_vars

\* the administrators' requests on the absences of the compliance users
AbsenceNext ==
  \/ \E u \in Reviewers, d \in 1..MaxDay, e \in 1..MaxDay, ok \in BOOLEAN :
       /\ Cardinality(absences) < MaxLeaves
       /\ Len(auditLogs) < MaxRecords
       /\ PostAbsence(u, d, e, ok)
  \/ \E a \in absences, ok \in BOOLEAN :
       /\ Len(auditLogs) < MaxRecords
       /\ AbsenceDelete(a, ok)

AbsenceSpec == AssignInit /\ [][AbsenceNext]_vars

\* the job, once startAbsenceReassignmentJob has been called, beside the
\* requests that change who is absent and who is active
ReassignNext ==
  \/ \E u \in Reviewers, d \in 1..2, e \in 1..2, ok \in BOOLEAN :
       AbsencePost(u, d, e, ok)
  \/ \E u \in Reviewers, ok \in BOOLEAN : UserDeactivate(u, ok)
  \/ ReassignStart
  \/ ReassignUser
  \/ ReassignUpdate
  \/ \E ok \in BOOLEAN : ReassignNotify(ok)
  \/ \E ok \in BOOLEAN : ReassignAudit(ok)

ReassignInit ==
  /\ tasks \in {Seeded(f) : f \in [1..MaxHeld -> AssignedTasks(ThreeReviewers)]}
  /\ versions = [t \in 1..MaxHeld |-> <<>>]
  /\ comments = [t \in 1..MaxHeld |-> <<>>]
  /\ notifications = <<>>
  /\ auditLogs = <<>>
  /\ reqs = [r \in ReqIds |-> IdleReq]
  /\ nops = 0
  /\ last = NoAnswer
  /\ scan = IdleScan
  /\ now = 1
  /\ nfaults = 0
  /\ isActive = [u \in ThreeReviewers |-> TRUE]
  /\ absences = {}
  /\ reassign = IdleReassign
  /\ jobLog = <<>>

ReassignSpec == ReassignInit /\ [][ReassignNext]_vars

TypeOK ==
  /\ \A t \in TaskIds : tasks[t].status \in TASK_STATUS
  /\ nops \in 0..MaxOps
  /\ now \in 1..MaxNow


(***************************************************************************)
(* Properties.                                                             *)
(***************************************************************************)
\* the collections of the database are as they were
NothingWritten ==
  UNCHANGED <<tasks, versions, comments, notifications, auditLogs>>

\* the expiry job writes task t in this step
ScanWrites(t) ==
  scan.pc = "update" /\ scan'.pc = "audit" /\ Head(scan.todo) = t

\* request r is answered in this step
Answered(r) == reqs[r].pc # "idle" /\ reqs'[r].pc = "idle"

\* the records of the audit log for task t that name the change from status
\* old to status new and the actor
Capturing(logs, t, move, actor) ==
  {k \in DOMAIN logs :
     /\ logs[k].taskId = t
     /\ logs[k].performedBy = actor
     /\ logs[k].oldStatus = move[1]
     /\ logs[k].newStatus = move[2]}

\* C1: every change of a task's status from a to b is a pair of the
\* transition table of section 4.1, or is APPROVED/PUBLISHED -> EXPIRED
\* written by the expiry job.
StatusChangesFollowTable ==
  [][\A t \in TaskIds :
       tasks[t].status # tasks'[t].status =>
         \/ tasks'[t].status \in SpecTable[tasks[t].status]
         \/ /\ tasks[t].status \in {"APPROVED", "PUBLISHED"}
            /\ tasks'[t].status = "EXPIRED"
            /\ ScanWrites(t)]_vars

TerminalStatusesAbsorbing ==
  [][\A t \in TaskIds :
       tasks[t].status \in TerminalStatuses =>
         tasks'[t].status = tasks[t].status]_vars

\* C4: a task's status is always one of the eight values; no request holds
\* EXPIRED as the status it is about to write, and a step that makes a task
\* EXPIRED is a write of the expiry job.
OnlyTheScanExpires ==
  /\ [](/\ \A t \in TaskIds : tasks[t].status \in TASK_STATUS
        /\ \A r \in ReqIds : reqs[r].data.status # "EXPIRED")
  /\ [][\A t \in TaskIds :
          (tasks'[t].status = "EXPIRED" /\ tasks[t].status # "EXPIRED")
            => (ScanWrites(t) /\ reqs' = reqs)]_vars

\* the expiry job has expired a task
SomeTaskExpired ==
  \E t \in TaskIds :
    /\ tasks[t].status = "EXPIRED"
    /\ tasks[t].closureComments = AutoClosureComments

\* C5: a PUT commits its write only while the task still has the status the
\* PUT has validated its request against.
NoCommitOnOutdatedStatus ==
  [][\A r \in ReqIds :
       (reqs[r].kind = "PUT" /\ reqs[r].pc = "update" /\ reqs'[r].pc = "audit")
         => tasks[reqs[r].task].status = reqs[r].snap.status]_vars

ApprovedOnlyWithLaterExpiry ==
  [][\A r \in ReqIds :
       ( /\ reqs[r].kind = "PUT" /\ reqs[r].pc = "update" /\ reqs'[r].pc = "audit"
         /\ reqs[r].data.status = "APPROVED"
         /\ reqs[r].snap.status # "APPROVED" )
         => reqs[r].data.expiryDate > reqs[r].data.approvalDate]_vars

\* C8: when a request that has committed a status change is answered, and
\* when the expiry job is through with a task it has expired, the audit log
\* holds exactly one record of that task naming the old status, the new
\* status and the actor.
EveryTransitionAudited ==
  [][/\ \A r \in ReqIds :
          (Answered(r) /\ reqs[r].moved # NoMove) =>
            Cardinality(Capturing(auditLogs', reqs[r].task, reqs[r].moved,
                                  reqs[r].user)) = 1
     /\ (scan.pc = "audit" /\ scan'.pc # "audit" /\ scan.moved # NoMove) =>
          Cardinality(Capturing(auditLogs', Head(scan.todo), scan.moved,
                                "SYSTEM")) = 1]_vars

\* C9: a failed insert of an audit record or of a notification neither makes
\* the request fail nor keeps the handler from its write.
FailedInsertTolerated ==
  [][nfaults' # nfaults =>
       /\ last'.resp.code < 400
       /\ \A r \in ReqIds :
            (reqs[r].pc = "notify" /\ reqs[r].moved = NoMove
               /\ reqs[r].kind = "PUT")
              => reqs'[r].pc \in {"notify", "update"}]_vars

\* C10: a request that is answered with an error has written nothing.
FailedRequestWroteNothing ==
  last.resp.code >= 400 => last.wrote = 0

\* the elements of a sequence
Range(seq) == {seq[k] : k \in DOMAIN seq}

\* task t as the expiry job leaves it when it runs at day at
ExpiredAt(doc, at) ==
  [doc EXCEPT !.status = "EXPIRED", !.closureDate = at,
              !.closureComments = "Automatically expired due to expiry date"]

ExpiryRunIdempotent ==
  [][/\ now' # now =>
          \A t \in Range(scan'.found) : tasks[t].status # "EXPIRED"
     /\ \A t \in DOMAIN tasks :
          tasks[t].status = "EXPIRED" => tasks'[t] = tasks[t]
     /\ \A t \in DOMAIN tasks :
          Cardinality({i \in DOMAIN auditLogs' :
                         /\ auditLogs'[i].action = "TASK_EXPIRED"
                         /\ auditLogs'[i].taskId = t}) <= 1]_vars

\* the job has run again after the run that expired a task
RanAgainAfterExpiry ==
  /\ now = 3 /\ scan.pc = "idle"
  /\ \E t \in DOMAIN tasks :
       /\ tasks[t].status = "EXPIRED" /\ tasks[t].closureDate = 2
  /\ Cardinality({i \in DOMAIN auditLogs : auditLogs[i].action = "TASK_EXPIRED"}) = 1

\* C13: when the update of one task fails in a run of the expiry job, the
\* run goes on with the tasks it has ahead.
ExpiryRunSurvivesFailure ==
  [][(scan.pc = "update" /\ nfaults' # nfaults) =>
       (Tail(scan.todo) = <<>> \/ scan'.pc # "idle")]_vars

\* the reviewers that are active and have no absence that holds the day
Eligible(day) ==
  {u \in Reviewers :
     /\ isActive[u]
     /\ ~\E a \in absences : a.userId = u /\ a.fromDate <= day /\ day <= a.toDate}

\* the number of tasks of the sequence that reviewer u holds in OPEN or
\* COMPLIANCE_REVIEW
OpenLoad(docs, u) ==
  Cardinality({t \in DOMAIN docs : /\ docs[t].assignedComplianceId = u
                                   /\ docs[t].status \in {"OPEN", "COMPLIANCE_REVIEW"}})

\* the place of reviewer u in the list of the candidates
Place(u) == CHOOSE k \in DOMAIN ComplianceUsers : ComplianceUsers[k] = u

\* a creation of a task arrives in this step
CreationArrives == nops' = nops + 1

\* request r has chosen its reviewer in this step
Chosen(r) == reqs[r].kind # "CREATE" /\ reqs'[r].kind = "CREATE"

\* C14: a creation that arrives when no reviewer is eligible is answered with
\* an error, writes no task, no audit record and no notification, and does
\* not go on to the generation of a UIN.
NoCandidateNoTask ==
  [][(CreationArrives /\ Eligible(now) = {}) =>
       /\ last'.kind = "CREATE" /\ last'.resp.code \in {400, 403}
       /\ last'.wrote = 0
       /\ NothingWritten
       /\ reqs' = reqs]_vars

\* a creation has been rejected for want of a reviewer
CreationRejectedForNoReviewer ==
  /\ last.kind = "CREATE" /\ last.resp.error = "NoAvailableReviewer"
  /\ Eligible(now) = {}

\* C15 as stated: the reviewer a creation chooses is eligible, no eligible
\* reviewer holds fewer tasks in OPEN or COMPLIANCE_REVIEW, and of those
\* that hold as few the chosen one is the first of the list.
FewestLoadFirstSeen ==
  [][\A r \in ReqIds :
       Chosen(r) =>
         LET c == reqs'[r].snap.assignedComplianceId
         IN /\ c \in Eligible(now)
            /\ \A u \in Eligible(now) :
                 /\ OpenLoad(tasks, c) <= OpenLoad(tasks, u)
                 /\ OpenLoad(tasks, u) = OpenLoad(tasks, c) => Place(c) <= Place(u)]_vars

\* C15: the reviewer a creation chooses is eligible, no eligible reviewer
\* holds fewer tasks in OPEN or COMPLIANCE_REVIEW, and of those that hold as
\* few the chosen one is the last of the list.
FewestLoadLastSeen ==
  [][\A r \in ReqIds :
       Chosen(r) =>
         LET c == reqs'[r].snap.assignedComplianceId
         IN /\ c \in Eligible(now)
            /\ \A u \in Eligible(now) :
                 /\ OpenLoad(tasks, c) <= OpenLoad(tasks, u)
                 /\ OpenLoad(tasks, u) = OpenLoad(tasks, c) => Place(c) >= Place(u)]_vars

\* a creation has chosen between two eligible reviewers with the same load
ChosenAmongTied ==
  \E r \in ReqIds :
    /\ reqs[r].kind = "CREATE" /\ reqs[r].pc = "uin"
    /\ Eligible(now) = Reviewers
    /\ OpenLoad(tasks, "comp1") = OpenLoad(tasks, "comp2")
    /\ reqs[r].snap.assignedComplianceId = "comp2"

\* the tasks the database held before the first creation
Stored == SubSeq(tasks, 1, MaxStored)

\* no creation but that of request r is being served
Alone(r) == \A k \in ReqIds \ {r} : reqs[k].kind # "CREATE"

\* C16: when the two reviewers start with the same load and stay eligible,
\* and the creations are served one after the other, the first creation
\* chooses the last reviewer of the list and the second the first of the
\* list, and each task is stored with the reviewer chosen for it: of two
\* successive creations each reviewer gets one task.
RoundRobin ==
  [][\A r \in ReqIds :
       /\ (/\ Chosen(r) /\ Alone(r)
           /\ Eligible(now) = Reviewers
           /\ OpenLoad(Stored, "comp1") = OpenLoad(Stored, "comp2")) =>
            /\ Len(tasks) = MaxStored =>
                 reqs'[r].snap.assignedComplianceId = "comp2"
            /\ Len(tasks) = MaxStored + 1 =>
                 /\ tasks[MaxStored + 1].assignedComplianceId = "comp2"
                 /\ reqs'[r].snap.assignedComplianceId = "comp1"
       /\ (reqs[r].pc = "create" /\ reqs'[r].pc = "audit") =>
            /\ Len(tasks') = Len(tasks) + 1
            /\ tasks'[Len(tasks')].assignedComplianceId =
                 reqs[r].snap.assignedComplianceId]_vars

\* two creations have been served from equal loads
TwoCreatedFromEqualLoads ==
  /\ Len(tasks) = MaxStored + 2
  /\ Eligible(now) = Reviewers
  /\ OpenLoad(Stored, "comp1") = 1 /\ OpenLoad(Stored, "comp2") = 1
  /\ last.kind = "CREATE" /\ last.resp.code = 201

\* C17: the reviewer of a task is eligible when the task is created, and
\* when the reassignment writes it.
NeverAssignedToUnavailable ==
  [][\A t \in DOMAIN tasks' :
       (t \notin DOMAIN tasks \/ tasks'[t].assignedComplianceId # tasks[t].assignedComplianceId)
         => tasks'[t].assignedComplianceId \in Eligible(now)]_vars

\* the tasks that reviewer u holds in OPEN or COMPLIANCE_REVIEW
Held(u) ==
  {t \in DOMAIN tasks : /\ tasks[t].assignedComplianceId = u
                        /\ tasks[t].status \in {"OPEN", "COMPLIANCE_REVIEW"}}

\* the reviewers that can take over the tasks of reviewer u
Replacements(u) == Eligible(now) \ {u}

\* the notifications and the records of its reassignment that task t has
NotifiedOf(t) ==
  {i \in DOMAIN notifications : /\ notifications[i].taskId = t
                                /\ notifications[i].type = "TASK_ASSIGNED"}

RecordedOf(t) ==
  {i \in DOMAIN auditLogs : /\ auditLogs[i].taskId = t
                            /\ auditLogs[i].action = "TASK_REASSIGNED"}

\* the job turns to an absent reviewer in this step
JobAtUser == reassign.pc = "user" /\ reassign' # reassign

\* the job ends its work for a reviewer in this step with no insert failed
JobDoneWithUser ==
  /\ reassign.pc = "audit" /\ reassign' # reassign
  /\ Tail(reassign.todo) = <<>> /\ nfaults' = 0

\* C18: when the job turns to an absent reviewer who holds tasks in OPEN or
\* COMPLIANCE_REVIEW and has a replacement, it takes all those tasks and one
\* target, a replacement such that no replacement holds fewer such tasks;
\* when it has worked through them with no insert failed, each of the tasks
\* is assigned to the target and has one notification to the target and one
\* record of the reassignment by SYSTEM.
ReassignedToLeastLoaded ==
  [][/\ JobAtUser =>
          LET u == Head(reassign.absent)
          IN (Held(u) # {} /\ Replacements(u) # {}) =>
               /\ reassign'.pc = "update"
               /\ Range(reassign'.found) = Held(u)
               /\ Len(reassign'.found) = Cardinality(Held(u))
               /\ reassign'.target \in Replacements(u)
               /\ \A v \in Replacements(u) :
                    OpenLoad(tasks, reassign'.target) <= OpenLoad(tasks, v)
     /\ JobDoneWithUser =>
          \A t \in Range(reassign.found) :
            /\ tasks'[t].assignedComplianceId = reassign.target
            /\ Cardinality(NotifiedOf(t)') = 1
            /\ Cardinality(RecordedOf(t)') = 1
            /\ \A i \in NotifiedOf(t)' : notifications'[i].userId = reassign.target
            /\ \A i \in RecordedOf(t)' : auditLogs'[i].performedBy = "SYSTEM"]_vars

\* the job has moved the two tasks of the absent comp1 to comp3, who held
\* none, and not to comp2, who holds one
TwoMovedToTheIdle ==
  /\ reassign.pc = "idle" /\ reassign.day = now
  /\ IsAbsent("comp1", now)
  /\ Eligible(now) = {"comp2", "comp3"}
  /\ Cardinality(Held("comp2")) = 1
  /\ Cardinality(Held("comp3")) = 2
  /\ Len(notifications) = 2
  /\ \A t \in Held("comp3") :
       Cardinality(NotifiedOf(t)) = 1 /\ Cardinality(RecordedOf(t)) = 1

\* reviewer u is absent and holds tasks that a replacement could take
AwaitsReassignment(u) ==
  /\ u \in Reviewers
  /\ \E a \in absences : a.userId = u /\ a.fromDate <= now /\ now <= a.toDate
  /\ Held(u) # {}
  /\ Replacements(u) # {}

\* C19: while the server runs, a reviewer who is absent and holds tasks in
\* OPEN or COMPLIANCE_REVIEW that a replacement could take does not stay so
\* for ever.
AbsentHolderRelieved ==
  \A u \in ThreeReviewers : AwaitsReassignment(u) ~> ~AwaitsReassignment(u)

\* C20: when the job turns to an absent reviewer who holds tasks in OPEN or
\* COMPLIANCE_REVIEW and has no replacement, the tasks stay with the
\* reviewer and the step leaves a line in the job's log, an audit record or
\* a notification.
SkippedReviewerReported ==
  [][JobAtUser =>
       LET u == Head(reassign.absent)
       IN (Held(u) # {} /\ Replacements(u) = {}) =>
            /\ tasks' = tasks
            /\ \/ jobLog' # jobLog
               \/ auditLogs' # auditLogs
               \/ notifications' # notifications]_vars

\* C21: no two absence records of a user have intervals that intersect.
NoIntersectingAbsences ==
  \A a, b \in absences :
    (a # b /\ a.userId = b.userId) =>
      (a.toDate < b.fromDate \/ b.toDate < a.fromDate)

\* C22: the tasks of the database have pairwise distinct UINs.
UinsDistinct ==
  Cardinality({tasks[t].uin : t \in DOMAIN tasks}) = Len(tasks)

\* C23: no step changes the uin of a task, and no step but the write of
\* the reassignment job changes its assignedComplianceId.
UinAndReviewerKept ==
  [][\A t \in DOMAIN tasks :
       /\ tasks'[t].uin = tasks[t].uin
       /\ tasks'[t].assignedComplianceId # tasks[t].assignedComplianceId =>
            (reassign.pc = "update" /\ reassign'.pc = "notify")]_vars

\* request r, sent by a producer, writes its update in this step
ProducerUpdates(r) ==
  /\ reqs[r].kind = "PUT" /\ reqs[r].pc = "update" /\ reqs'[r].pc = "audit"
  /\ UserRole[reqs[r].user] \in {"PRODUCT_USER", "PRODUCT_ADMIN"}

\* C28: the update of a producer's PUT leaves every field of the task but
\* the description as it was.
ProducerChangesDescriptionOnly ==
  [][\A r \in ReqIds :
       ProducerUpdates(r) =>
         LET t == reqs[r].task
         IN tasks' = [tasks EXCEPT ![t].description = tasks'[t].description]]_vars

(***************************************************************************)
(* Uploads by every kind of user, the administrator included, with status  *)
(* updates in between.                                                     *)
(***************************************************************************)
Uploaders == Actors \cup {"admin"}

UploadNext ==
  \/ \E r \in ReqIds, u \in Uploaders, t \in TaskIds \cup {NoTask} : VersionStart(r, u, t)
  \/ \E r \in ReqIds : VersionCreate(r)
  \/ \E r \in ReqIds : VersionUpdate(r)
  \/ \E r \in ReqIds, ok \in BOOLEAN : VersionAudit(r, ok)
  \/ \E r \in ReqIds, ok \in BOOLEAN : VersionNotify(r, ok)
  \/ \E r \in ReqIds, u \in Actors, t \in TaskIds, body \in PutBodies :
       PutStart(r, u, t, body)
  \/ \E r \in ReqIds, ok \in BOOLEAN : PutNotify(r, ok)
  \/ \E r \in ReqIds : PutUpdate(r)
  \/ \E r \in ReqIds, ok \in BOOLEAN : PutAudit(r, ok)

UploadSpec == Init /\ [][UploadNext]_vars

\* request r, an upload, takes a step
UploadSteps(r) == reqs[r].kind = "VERSION" /\ reqs'[r] # reqs[r]

\* C25: an upload by a user who may upload to the task sets the status of
\* the task to COMPLIANCE_REVIEW whatever status the task has, changes
\* nothing else of the task, and when it is answered with success it has
\* left exactly one notification, addressed to the reviewer of the task.
UploadForcesReview ==
  [][\A r \in ReqIds :
       UploadSteps(r) =>
         LET q == reqs[r]
         IN /\ versions' # versions => reqs'[r].pc = "update"
            /\ IF q.pc = "update"
                 THEN tasks' = [tasks EXCEPT ![q.task].status = "COMPLIANCE_REVIEW"]
                 ELSE tasks' = tasks
            /\ notifications' # notifications <=>
                 (Answered(r) /\ last'.resp.code = 201)
            /\ notifications' # notifications =>
                 notifications' = Append(notifications,
                   [userId |-> q.snap.assignedComplianceId, type |-> "VERSION_UPLOADED",
                    taskId |-> q.task])]_vars

\* the administrator has uploaded a version to a task that was in
\* PRODUCT_REVIEW or APPROVED, and the reviewer has the notification
AdminUploadAnswered ==
  /\ last.kind = "VERSION" /\ last.resp.code = 201
  /\ \E i \in DOMAIN auditLogs : auditLogs[i] = logVersionUploaded(1, "admin")
  /\ tasks[1].status = "COMPLIANCE_REVIEW"
  /\ notifications = <<[userId |-> "comp1", type |-> "VERSION_UPLOADED", taskId |-> 1]>>
  /\ nops = 1

(***************************************************************************)
(* The audit cleanup job, started with the other jobs at the start of the  *)
(* server, beside uploads, which write audit records.                      *)
(***************************************************************************)
\* the record cleanupOldLogs writes of itself
logAuditCleanup == AuditRecord("AUDIT_CLEANUP", "SYSTEM", NoTask, NoStatus, NoStatus)

\* AuditService.cleanupOldLogs as the job calls it.  The collection holds
\* the records in the order of their timestamps, so the records older than
\* the cutoff are its first `old` records; how many they are is for the
\* clock to decide.  A deleteMany that fails is caught and nothing is
\* written; a failure of the insert of the job's own record is swallowed
\* by log.
cleanupOldLogs(old, deleted, ok) ==
  /\ old \in 0..Len(auditLogs)
  /\ Insert(deleted /\ ok)
  /\ auditLogs' =
       IF deleted
         THEN AuditLogged(SubSeq(auditLogs, old + 1, Len(auditLogs)), logAuditCleanup, ok)
         ELSE auditLogs
  /\ last' = NoAnswer
  /\ UNCHANGED <<jobVars, tasks, versions, comments, notifications, reqs, nops, scan, now>>

AuditNext ==
  \/ \E r \in ReqIds, u \in Actors, t \in TaskIds : VersionStart(r, u, t)
  \/ \E r \in ReqIds : VersionCreate(r)
  \/ \E r \in ReqIds : VersionUpdate(r)
  \/ \E r \in ReqIds, ok \in BOOLEAN : VersionAudit(r, ok)
  \/ \E r \in ReqIds, ok \in BOOLEAN : VersionNotify(r, ok)
  \/ \E old \in 0..MaxRecords, deleted \in BOOLEAN, ok \in BOOLEAN :
       /\ Len(auditLogs) < MaxRecords
       /\ cleanupOldLogs(old, deleted, ok)

AuditSpec == Init /\ [][AuditNext]_vars

\* C26: the audit trail is append-only: every step leaves the records
\* written so far as they are, in their places, and at most adds records
\* after them.
AuditAppendOnly ==
  [][/\ Len(auditLogs') >= Len(auditLogs)
     /\ SubSeq(auditLogs', 1, Len(auditLogs)) = auditLogs]_vars

\* C27: the versions of a task are numbered 1.0, 1.1, 1.2, ... in the order
\* of their upload, so that no two versions of a task have the same number.
VersionsNumbered ==
  \A t \in DOMAIN versions :
    \A n \in DOMAIN versions[t] : versions[t][n] = <<1, n - 1>>

(***************************************************************************)
(* Every operation that writes a status or a date: status updates and      *)
(* field-only updates (PUT), uploads, comments and the expiry job, on      *)
(* tasks as POST / creates them and as an approval leaves them.            *)
(***************************************************************************)
\* a created task, moved on to a status by updates with all their fields
DatedTask(st, expiry) ==
  IF st = "APPROVED"
    THEN [NewTask(st) EXCEPT !.approvalDate = 1, !.expiryDate = expiry]
    ELSE NewTask(st)

DateInit ==
  /\ tasks \in {Seeded(f) : f \in [TaskIds ->
        {DatedTask(st, e) : st \in {"OPEN", "COMPLIANCE_REVIEW", "APPROVED"}, e \in Dates}]}
  /\ versions = [t \in TaskIds |-> <<>>]
  /\ comments = [t \in TaskIds |-> <<>>]
  /\ notifications = <<>>
  /\ auditLogs = <<>>
  /\ reqs = [r \in ReqIds |-> IdleReq]
  /\ nops = 0
  /\ last = NoAnswer
  /\ scan = IdleScan
  /\ now = 1
  /\ nfaults = 0
  /\ isActive = [u \in TwoReviewers |-> TRUE]
  /\ absences = {}
  /\ reassign = IdleReassign
  /\ jobLog = <<>>

\* the bodies of the status updates, and a field-only update that gives
\* closureDate as null: the validator chain names no closureDate
DateBodies == PutBodies \cup {[NoData EXCEPT !.closureDate = NullDate]}

DateNext ==
  \/ \E r \in ReqIds, u \in Actors, t \in TaskIds, body \in DateBodies :
       PutStart(r, u, t, body)
  \/ \E r \in ReqIds, ok \in BOOLEAN : PutNotify(r, ok)
  \/ \E r \in ReqIds : PutUpdate(r)
  \/ \E r \in ReqIds, ok \in BOOLEAN : PutAudit(r, ok)
  \/ \E r \in ReqIds, u \in Actors, t \in TaskIds : VersionStart(r, u, t)
  \/ \E r \in ReqIds : VersionCreate(r)
  \/ \E r \in ReqIds : VersionUpdate(r)
  \/ \E r \in ReqIds, ok \in BOOLEAN : VersionAudit(r, ok)
  \/ \E r \in ReqIds, ok \in BOOLEAN : VersionNotify(r, ok)
  \/ \E r \in ReqIds, u \in Actors, t \in TaskIds : CommentStart(r, u, t)
  \/ \E r \in ReqIds : CommentCreate(r)
  \/ \E r \in ReqIds : CommentUpdate(r)
  \/ \E r \in ReqIds, ok \in BOOLEAN : CommentNotify(r, ok)
  \/ \E r \in ReqIds, ok \in BOOLEAN : CommentAudit(r, ok)
  \/ ScanStart
  \/ ScanUpdate
  \/ \E ok \in BOOLEAN : ScanAudit(ok)

DateSpec == DateInit /\ [][DateNext]_vars

\* C29: a task in APPROVED, PUBLISHED or EXPIRED has an approval date and an
\* expiry date, a task in PUBLISHED has a publish date, and a task in
\* CLOSED_INTERNAL, CLOSED_EXCHANGE or EXPIRED has a closure date.
StatusHasItsDates ==
  \A t \in DOMAIN tasks :
    LET doc == tasks[t]
    IN /\ doc.status \in {"APPROVED", "PUBLISHED", "EXPIRED"} =>
            doc.approvalDate # NoDate /\ doc.expiryDate # NoDate
       /\ doc.status = "PUBLISHED" => doc.publishDate # NoDate
       /\ doc.status \in {"CLOSED_INTERNAL", "CLOSED_EXCHANGE", "EXPIRED"} =>
            doc.closureDate # NoDate

(***************************************************************************)
(* The reassignment job beside status updates on a task it may hold.       *)
(***************************************************************************)
\* status updates: a body with a status and the fields the status calls for
StatusBodies ==
  {[NoData EXCEPT !.status = "PRODUCT_REVIEW"],
   [NoData EXCEPT !.status = "CLOSED_INTERNAL", !.closureComments = "remarks"]}

MovingNext ==
  \/ \E u \in Reviewers, d \in 1..2, e \in 1..2, ok \in BOOLEAN :
       AbsencePost(u, d, e, ok)
  \/ ReassignStart
  \/ ReassignUser
  \/ ReassignUpdate
  \/ \E ok \in BOOLEAN : ReassignNotify(ok)
  \/ \E ok \in BOOLEAN : ReassignAudit(ok)
  \/ \E r \in ReqIds, u \in {"comp1", "prod1"}, t \in TaskIds, body \in StatusBodies :
       PutStart(r, u, t, body)
  \/ \E r \in ReqIds, ok \in BOOLEAN : PutNotify(r, ok)
  \/ \E r \in ReqIds : PutUpdate(r)
  \/ \E r \in ReqIds, ok \in BOOLEAN : PutAudit(r, ok)

\* the tasks of the database are assigned to comp1
MovingInit ==
  /\ AssignInit
  /\ \A t \in DOMAIN tasks : tasks[t].assignedComplianceId = "comp1"

MovingSpec == MovingInit /\ [][MovingNext]_vars

\* C30: the write of the reassignment job changes the assignedComplianceId,
\* and nothing else, of a task that at that moment is in OPEN or
\* COMPLIANCE_REVIEW and assigned to a compliance reviewer who is absent on
\* the day of the run; no other step of the job changes a task.
JobMovesOnlyDueTasks ==
  [][reassign' # reassign =>
       IF reassign.pc = "update"
         THEN LET t == Head(reassign.todo)
              IN /\ tasks[t].status \in {"OPEN", "COMPLIANCE_REVIEW"}
                 /\ UserRole[tasks[t].assignedComplianceId] \in
                      {"COMPLIANCE_USER", "COMPLIANCE_ADMIN"}
                 /\ IsAbsent(tasks[t].assignedComplianceId, reassign.day)
                 /\ tasks' = [tasks EXCEPT ![t].assignedComplianceId =
                                 tasks'[t].assignedComplianceId]
         ELSE tasks' = tasks]_vars

\* request r, a comment, takes a step
CommentSteps(r) == reqs[r].kind = "COMMENT" /\ reqs'[r] # reqs[r]

\* request r is the comment of a compliance reviewer on a task that the
\* request found in COMPLIANCE_REVIEW
ReviewerOnReview(r) ==
  /\ UserRole[reqs[r].user] \in {"COMPLIANCE_USER", "COMPLIANCE_ADMIN"}
  /\ reqs[r].snap.status = "COMPLIANCE_REVIEW"

====
